---- MODULE Spec2Model ----
(***************************************************************************)
(* Model of the debuggee MCP server (src/src/index.ts): the                *)
(* debug/start_session tool handler, the endpoint discovery promise it     *)
(* builds around the spawned child, the CDP connection set-up and the      *)
(* module-wide sessions registry.                                          *)
(*                                                                         *)
(* Node runs every handler to completion on one thread, and the            *)
(* continuation of an await runs in the microtask that follows the         *)
(* handler that settled the awaited promise.  One action of the model is   *)
(* therefore one event-loop turn: the event handler's body followed by     *)
(* the part of the async tool handler it wakes up, up to the next await.   *)
(***************************************************************************)
EXTENDS Integers, Sequences, FiniteSets, TLC

(* ---------------------------------------------------------------- bounds *)
NumCalls == 2
TickMs == 10000
MaxNow == 10000

(* ------------------------------------------------------------- constants *)
TimeoutMs == 10000
Pid == 1

Calls == 1..NumCalls

(* Math.random().toString(36).substring(2, 9): the suffixes two calls draw *)
Rands == {"r1", "r2"}

(* payloads of Debugger.paused notifications *)
Payloads == {"p1", "p2"}
Undefined == "undefined"

(* exit codes handed to the "exit" listener; "null" = ended by a signal *)
ExitCodes == {"0", "1", "null"}

(* What a child writes on stderr, as characters.  Banner is the line node  *)
(* prints when the inspector listens, each child's inspector on a port of  *)
(* its own; NoUri is output without an endpoint.                           *)
Uri(c) == <<"w", "s", ":", "/", "/", "h", ToString(c)>>
Banner(c) == <<"D", " ">> \o Uri(c) \o <<"\n">>
NoUri == <<"E", "\n">>
Outputs(c) == {Banner(c), NoUri}

(* the values the tool's arguments are drawn from (StartSessionSchema) *)
Runners == {"node", "tsx", "ts-node"}
Entries == {"a.js", "b.js"}
ArgLists == {<<>>, <<"x", "y">>}
Inputs == [runner : Runners, inspectBrk : BOOLEAN, entry : Entries, args : ArgLists]

(* the schema's defaults: runner node, inspectBrk true, no args *)
DefaultInput == [runner |-> "node", inspectBrk |-> TRUE, entry |-> "a.js", args |-> <<>>]

VARIABLES
    now,        \* Date.now() / the clock the timers run on
    pc,         \* where each start_session call stands
    child,      \* the spawned ChildProcess of each call
    stderr,     \* the `stderr` accumulator of each discovery promise
    timer,      \* the discovery timeout of each call
    promise,    \* the discovery promise of each call
    wsUrl,      \* the `wsUrl` local of each call
    client,     \* the CDP client of each call
    session,    \* the Session objects created, by creating call
    sessions,   \* the registry: session id -> Session object (its call)
    result,     \* what each call returned
    notifs,     \* the last notifications each connection delivered
    input,      \* the arguments each call was invoked with
    maps        \* the breakpoints Map objects allocated, by creating call

vars == <<now, pc, child, stderr, timer, promise, wsUrl, client, session,
          sessions, result, notifs, input, maps>>

(* ------------------------------------------------------ pure functions -- *)

IsSpace(ch) == ch \in {" ", "\n"}

WsPrefix == <<"w", "s", ":", "/", "/">>

(* positions where /ws:\/\/[^\s]+/ can match *)
MatchStarts(buf) ==
    {i \in 1..Len(buf) :
        /\ i + 5 <= Len(buf)
        /\ SubSeq(buf, i, i + 4) = WsPrefix
        /\ ~IsSpace(buf[i + 5])}

Min(S) == CHOOSE x \in S : \A y \in S : x <= y
Max(S) == CHOOSE x \in S : \A y \in S : x >= y

(* stderr.match(/ws:\/\/[^\s]+/): the leftmost match, greedy; <<>> = null *)
Match(buf) ==
    IF MatchStarts(buf) = {} THEN <<>>
    ELSE LET i == Min(MatchStarts(buf))
             j == Max({k \in (i + 5)..Len(buf) :
                         \A m \in (i + 5)..k : ~IsSpace(buf[m])})
         IN SubSeq(buf, i, j)

(* inspectBrk ? "--inspect-brk" : "--inspect" *)
InspectFlag(inspectBrk) == IF inspectBrk THEN "--inspect-brk" ELSE "--inspect"

(* a switch that launches ts-node by its own name *)
nodeCmdByRunnerName(runner) ==
    CASE runner = "tsx" -> "tsx"
      [] runner = "ts-node" -> "ts-node"
      [] OTHER -> "node"

(* the runner switch: the command *)
nodeCmd(runner) ==
    CASE runner = "tsx" -> "tsx"
      [] runner = "ts-node" -> "node"
      [] OTHER -> "node"

(* the runner switch: the arguments *)
nodeArgs(runner, inspectBrk, entry, args) ==
    CASE runner = "tsx" -> <<InspectFlag(inspectBrk), entry>> \o args
      [] runner = "ts-node" ->
           <<InspectFlag(inspectBrk), "-r", "ts-node/register", entry>> \o args
      [] OTHER -> <<InspectFlag(inspectBrk), entry>> \o args

(* generateSessionId(): `${process.pid}-${Date.now()}-${random}` *)
generateSessionId(t, r) == <<Pid, t, r>>

(* Map.prototype.set *)
MapSet(m, k, v) == [x \in (DOMAIN m) \cup {k} |-> IF x = k THEN v ELSE m[x]]

EmptyMap == [x \in {} |-> 0]

(* the error messages *)
TimeoutError == <<"Timeout waiting for inspector WebSocket URL">>
ExitError(code) ==
    <<"Process exited with code ", code, " before inspector URL was found">>
SpawnError == <<"spawn ENOENT">>
SpawnThrow == <<"spawn threw">>
ConnectError == <<"connect failed">>
DebuggerEnableError == <<"Debugger.enable failed">>
RuntimeEnableError == <<"Runtime.enable failed">>

NoPayload == [sessionId |-> <<>>, wsUrl |-> <<>>, pid |-> 0, runner |-> "", entry |-> ""]
NoResult == [isError |-> FALSE, text |-> <<>>, payload |-> NoPayload]

(* the catch block's return value *)
ErrorResult(msg) ==
    [isError |-> TRUE,
     text |-> <<"Failed to start debug session: ">> \o msg,
     payload |-> NoPayload]

(* a return value that reports the schema's default runner *)
SuccessResultDefaultRunner(id, url, childPid, runner, entry) ==
    [isError |-> FALSE,
     text |-> <<>>,
     payload |-> [sessionId |-> id, wsUrl |-> url, pid |-> childPid,
                  runner |-> "node", entry |-> entry]]

(* the value returned after sessions.set *)
SuccessResult(id, url, childPid, runner, entry) ==
    [isError |-> FALSE,
     text |-> <<>>,
     payload |-> [sessionId |-> id, wsUrl |-> url, pid |-> childPid,
                  runner |-> runner, entry |-> entry]]

(* ---------------------------------------------------------------- Init -- *)

NoChild == [status |-> "none", output |-> <<>>, sent |-> 0,
            spawnfile |-> "", spawnargs |-> <<>>, killed |-> FALSE]
NoInput == [runner |-> "", inspectBrk |-> FALSE, entry |-> "", args |-> <<>>]
NoPromise == [state |-> "none", value |-> <<>>]
NoTimer == [state |-> "none", deadline |-> 0]
NoClient == [state |-> "none", listeners |-> {}, enabled |-> <<>>]

Init ==
    /\ now = 0
    /\ pc = [c \in Calls |-> "idle"]
    /\ child = [c \in Calls |-> NoChild]
    /\ stderr = [c \in Calls |-> <<>>]
    /\ timer = [c \in Calls |-> NoTimer]
    /\ promise = [c \in Calls |-> NoPromise]
    /\ wsUrl = [c \in Calls |-> <<>>]
    /\ client = [c \in Calls |-> NoClient]
    /\ session = EmptyMap
    /\ sessions = EmptyMap
    /\ result = [c \in Calls |-> NoResult]
    /\ notifs = [c \in Calls |-> <<>>]
    /\ input = [c \in Calls |-> NoInput]
    /\ maps = EmptyMap

(* ------------------------------------------------- promise and timer -- *)

(* clearTimeout(timeout): only an armed timer is affected *)
ClearTimeout(t) ==
    IF t.state = "armed" THEN [state |-> "cleared", deadline |-> 0] ELSE t

(* a resolve that takes effect on a settled promise too *)
ResolveOverwriting(p, v) == [state |-> "resolved", value |-> v]

(* resolve(v) / reject(e): only a pending promise is affected *)
Resolve(p, v) ==
    IF p.state = "pending" THEN [state |-> "resolved", value |-> v] ELSE p
Reject(p, e) ==
    IF p.state = "pending" THEN [state |-> "rejected", value |-> e] ELSE p

(* the endpoint the child's inspector really listens on *)
Endpoint(c) == Match(child[c].output)

(* ------------------------------------------------------------ actions -- *)

(* spawn() throws synchronously: the catch block returns the error *)
StartThrows(c, in) ==
    /\ pc[c] = "idle"
    /\ input' = [input EXCEPT ![c] = in]
    /\ pc' = [pc EXCEPT ![c] = "failed"]
    /\ result' = [result EXCEPT ![c] = ErrorResult(SpawnThrow)]
    /\ UNCHANGED <<now, child, stderr, timer, promise, wsUrl, client, session,
                   sessions, notifs, maps>>

(* spawn() returns a child; the promise executor arms the timer and       *)
(* attaches the data, error and exit listeners; the handler awaits.       *)
Start(c, out, in) ==
    /\ pc[c] = "idle"
    /\ input' = [input EXCEPT ![c] = in]
    /\ child' = [child EXCEPT ![c] =
                    [status |-> "running", output |-> out, sent |-> 0,
                     spawnfile |-> nodeCmd(in.runner),
                     spawnargs |-> nodeArgs(in.runner, in.inspectBrk,
                                            in.entry, in.args),
                     killed |-> FALSE]]
    /\ timer' = [timer EXCEPT ![c] =
                    [state |-> "armed", deadline |-> now + TimeoutMs]]
    /\ stderr' = [stderr EXCEPT ![c] = <<>>]
    /\ promise' = [promise EXCEPT ![c] = [state |-> "pending", value |-> <<>>]]
    /\ pc' = [pc EXCEPT ![c] = "discover"]
    /\ UNCHANGED <<now, wsUrl, client, session, sessions, result, notifs, maps>>

(* child.stderr.on("data"): the child writes its next n characters *)
StderrData(c, n) ==
    /\ child[c].status \in {"running", "exited"}
    /\ n \in 1..(Len(child[c].output) - child[c].sent)
    /\ LET chunk == SubSeq(child[c].output, child[c].sent + 1, child[c].sent + n)
           buf == stderr[c] \o chunk
           match == Match(buf)
           wakes == match # <<>> /\ promise[c].state = "pending"
       IN /\ child' = [child EXCEPT ![c].sent = @ + n]
          /\ stderr' = [stderr EXCEPT ![c] = buf]
          /\ timer' = IF match # <<>>
                         THEN [timer EXCEPT ![c] = ClearTimeout(@)]
                         ELSE timer
          /\ promise' = IF match # <<>>
                           THEN [promise EXCEPT ![c] = Resolve(@, match)]
                           ELSE promise
          /\ wsUrl' = IF wakes THEN [wsUrl EXCEPT ![c] = match] ELSE wsUrl
          /\ pc' = IF wakes THEN [pc EXCEPT ![c] = "connect"] ELSE pc
    /\ UNCHANGED <<now, client, session, sessions, result, notifs, input, maps>>

(* child.on("error") *)
ChildError(c) ==
    /\ child[c].status = "running"
    /\ child' = [child EXCEPT ![c].status = "errored"]
    /\ timer' = [timer EXCEPT ![c] = ClearTimeout(@)]
    /\ promise' = [promise EXCEPT ![c] = Reject(@, SpawnError)]
    /\ IF promise[c].state = "pending"
         THEN /\ pc' = [pc EXCEPT ![c] = "failed"]
              /\ result' = [result EXCEPT ![c] = ErrorResult(SpawnError)]
         ELSE UNCHANGED <<pc, result>>
    /\ UNCHANGED <<now, stderr, wsUrl, client, session, sessions, notifs, input, maps>>

(* an exit listener that also drops the sessions of the exited process *)
ChildExitRemoving(c, code) ==
    /\ child[c].status = "running"
    /\ child' = [child EXCEPT ![c].status = "exited"]
    /\ sessions' = [id \in {i \in DOMAIN sessions : session[sessions[i]].process # c}
                      |-> sessions[id]]
    /\ IF code # "null"
         THEN /\ timer' = [timer EXCEPT ![c] = ClearTimeout(@)]
              /\ promise' = [promise EXCEPT ![c] = Reject(@, ExitError(code))]
              /\ IF promise[c].state = "pending"
                   THEN /\ pc' = [pc EXCEPT ![c] = "failed"]
                        /\ result' = [result EXCEPT ![c] =
                                         ErrorResult(ExitError(code))]
                   ELSE UNCHANGED <<pc, result>>
         ELSE UNCHANGED <<timer, promise, pc, result>>
    /\ UNCHANGED <<now, stderr, wsUrl, client, session, notifs, input, maps>>

(* child.on("exit") *)
ChildExit(c, code) ==
    /\ child[c].status = "running"
    /\ child' = [child EXCEPT ![c].status = "exited"]
    /\ IF code # "null"
         THEN /\ timer' = [timer EXCEPT ![c] = ClearTimeout(@)]
              /\ promise' = [promise EXCEPT ![c] = Reject(@, ExitError(code))]
              /\ IF promise[c].state = "pending"
                   THEN /\ pc' = [pc EXCEPT ![c] = "failed"]
                        /\ result' = [result EXCEPT ![c] =
                                         ErrorResult(ExitError(code))]
                   ELSE UNCHANGED <<pc, result>>
         ELSE UNCHANGED <<timer, promise, pc, result>>
    /\ UNCHANGED <<now, stderr, wsUrl, client, session, sessions, notifs, input, maps>>

(* a timer armed with no delay *)
TimerDueAtOnce(c) == now >= timer[c].deadline - TimeoutMs

(* the timer may fire once its delay has elapsed *)
TimerDue(c) == now >= timer[c].deadline

(* a setTimeout callback that calls child.kill() before rejecting *)
TimerFireKilling(c) ==
    /\ timer[c].state = "armed"
    /\ TimerDue(c)
    /\ child' = [child EXCEPT ![c].killed = TRUE]
    /\ timer' = [timer EXCEPT ![c].state = "fired"]
    /\ promise' = [promise EXCEPT ![c] = Reject(@, TimeoutError)]
    /\ IF promise[c].state = "pending"
         THEN /\ pc' = [pc EXCEPT ![c] = "failed"]
              /\ result' = [result EXCEPT ![c] = ErrorResult(TimeoutError)]
         ELSE UNCHANGED <<pc, result>>
    /\ UNCHANGED <<now, stderr, wsUrl, client, session, sessions, notifs, input, maps>>

(* the setTimeout callback *)
TimerFire(c) ==
    /\ timer[c].state = "armed"
    /\ TimerDue(c)
    /\ timer' = [timer EXCEPT ![c].state = "fired"]
    /\ promise' = [promise EXCEPT ![c] = Reject(@, TimeoutError)]
    /\ IF promise[c].state = "pending"
         THEN /\ pc' = [pc EXCEPT ![c] = "failed"]
              /\ result' = [result EXCEPT ![c] = ErrorResult(TimeoutError)]
         ELSE UNCHANGED <<pc, result>>
    /\ UNCHANGED <<now, child, stderr, wsUrl, client, session, sessions, notifs, input, maps>>

(* time passes *)
Tick ==
    /\ now < MaxNow
    /\ now' = now + TickMs
    /\ UNCHANGED <<pc, child, stderr, timer, promise, wsUrl, client, session,
                   sessions, result, notifs, input, maps>>

(* ------------------------------------------- connection and enabling -- *)

(* Debugger.enable() issued without await, Runtime.enable() right after *)
ConnectOkNotAwaitingDebugger(c) ==
    /\ pc[c] = "connect"
    /\ child[c].status = "running"
    /\ wsUrl[c] = Endpoint(c)
    /\ client' = [client EXCEPT ![c].state = "open"]
    /\ pc' = [pc EXCEPT ![c] = "enableRt"]
    /\ UNCHANGED <<now, child, stderr, timer, promise, wsUrl, session,
                   sessions, result, notifs, input, maps>>

(* await CDP({ target: wsUrl }) resolves: only the address the inspector  *)
(* of a live child listens on can be connected to.  Debugger.enable() is  *)
(* issued in the same turn.                                               *)
ConnectOk(c) ==
    /\ pc[c] = "connect"
    /\ child[c].status = "running"
    /\ wsUrl[c] = Endpoint(c)
    /\ client' = [client EXCEPT ![c].state = "open"]
    /\ pc' = [pc EXCEPT ![c] = "enableDbg"]
    /\ UNCHANGED <<now, child, stderr, timer, promise, wsUrl, session,
                   sessions, result, notifs, input, maps>>

(* await CDP(...) rejects *)
ConnectFail(c) ==
    /\ pc[c] = "connect"
    /\ pc' = [pc EXCEPT ![c] = "failed"]
    /\ result' = [result EXCEPT ![c] = ErrorResult(ConnectError)]
    /\ UNCHANGED <<now, child, stderr, timer, promise, wsUrl, client, session,
                   sessions, notifs, input, maps>>

(* a Session literal that starts out with a pause snapshot *)
NewSessionPaused(c, id) ==
    [id |-> id, wsUrl |-> wsUrl[c], client |-> c, process |-> c,
     breakpoints |-> c, lastPaused |-> "p1"]

(* a Session literal whose breakpoints is one module-wide Map *)
NewSessionSharedMap(c, id) ==
    [id |-> id, wsUrl |-> wsUrl[c], client |-> c, process |-> c,
     breakpoints |-> 1, lastPaused |-> Undefined]

(* the Session literal: the client and the process are the call's own,    *)
(* breakpoints refers to the Map that `new Map()` allocates for the call *)
NewSession(c, id) ==
    [id |-> id, wsUrl |-> wsUrl[c], client |-> c, process |-> c,
     breakpoints |-> c, lastPaused |-> Undefined]

(* sessions.set moved ahead of `await Runtime.enable()` *)
DebuggerEnableOkRegistering(c) ==
    /\ pc[c] = "enableDbg"
    /\ pc' = [pc EXCEPT ![c] = "enableRt"]
    /\ client' = [client EXCEPT ![c].enabled = Append(@, "Debugger")]
    /\ \E r \in Rands :
          /\ session' = MapSet(session, c, NewSession(c, generateSessionId(now, r)))
          /\ sessions' = MapSet(sessions, generateSessionId(now, r), c)
    /\ maps' = MapSet(maps, NewSession(c, <<>>).breakpoints, {})
    /\ UNCHANGED <<now, child, stderr, timer, promise, wsUrl,
                   result, notifs, input>>

(* await Debugger.enable() resolves; Runtime.enable() is issued *)
DebuggerEnableOk(c) ==
    /\ pc[c] = "enableDbg"
    /\ client' = [client EXCEPT ![c].enabled = Append(@, "Debugger")]
    /\ pc' = [pc EXCEPT ![c] = "enableRt"]
    /\ UNCHANGED <<now, child, stderr, timer, promise, wsUrl, session,
                   sessions, result, notifs, input, maps>>

(* await Debugger.enable() rejects *)
DebuggerEnableFail(c) ==
    /\ pc[c] = "enableDbg"
    /\ pc' = [pc EXCEPT ![c] = "failed"]
    /\ result' = [result EXCEPT ![c] = ErrorResult(DebuggerEnableError)]
    /\ UNCHANGED <<now, child, stderr, timer, promise, wsUrl, client, session,
                   sessions, notifs, input, maps>>

(* await Runtime.enable() rejects *)
RuntimeEnableFail(c) ==
    /\ pc[c] = "enableRt"
    /\ pc' = [pc EXCEPT ![c] = "failed"]
    /\ result' = [result EXCEPT ![c] = ErrorResult(RuntimeEnableError)]
    /\ UNCHANGED <<now, child, stderr, timer, promise, wsUrl, client, session,
                   sessions, notifs, input, maps>>

(* await Runtime.enable() resolves: the id is generated, the Session is   *)
(* built, the two notification handlers are installed, the Session is     *)
(* stored in the registry and the success payload is returned.            *)
RuntimeEnableOk(c, r) ==
    /\ pc[c] = "enableRt"
    /\ LET sessionId == generateSessionId(now, r)
       IN /\ session' = MapSet(session, c, NewSession(c, sessionId))
          /\ sessions' = MapSet(sessions, sessionId, c)
          /\ result' = [result EXCEPT ![c] =
                           SuccessResult(sessionId, wsUrl[c], c,
                                         input[c].runner, input[c].entry)]
    /\ maps' = MapSet(maps, NewSession(c, <<>>).breakpoints, {})
    /\ client' = [client EXCEPT ![c].listeners =
                      {"Debugger.paused", "Debugger.resumed"},
                                ![c].enabled = Append(@, "Runtime")]
    /\ pc' = [pc EXCEPT ![c] = "done"]
    /\ UNCHANGED <<now, child, stderr, timer, promise, wsUrl, notifs, input>>

(* ------------------------------------------------------ notifications -- *)

(* a handler that keeps the first snapshot while one is held *)
PausedHandlerKeepingFirst(s, event) ==
    IF s.lastPaused = Undefined THEN [s EXCEPT !.lastPaused = event] ELSE s

(* client.on("Debugger.paused") *)
PausedHandler(s, event) == [s EXCEPT !.lastPaused = event]

(* client.on("Debugger.resumed") *)
ResumedHandler(s) == [s EXCEPT !.lastPaused = Undefined]

(* the connection's record of what it delivered: the last two *)
Delivered(log, n) == IF Len(log) >= 2 THEN <<log[Len(log)], n>> ELSE Append(log, n)

(* the debuggee can notify once Debugger.enable has been issued *)
CanNotify(c) ==
    /\ client[c].state = "open"
    /\ child[c].status = "running"
    /\ pc[c] \in {"enableDbg", "enableRt", "done"}

(* the connection delivers Debugger.paused with payload p *)
Paused(c, p) ==
    /\ CanNotify(c)
    /\ LET heard == "Debugger.paused" \in client[c].listeners
       IN /\ notifs' = [notifs EXCEPT ![c] =
                Delivered(@, [ev |-> "paused", payload |-> p, heard |-> heard])]
          /\ session' = IF heard
                           THEN [session EXCEPT ![c] = PausedHandler(@, p)]
                           ELSE session
    /\ UNCHANGED <<now, pc, child, stderr, timer, promise, wsUrl, client,
                   sessions, result, input, maps>>

(* the connection delivers Debugger.resumed *)
Resumed(c) ==
    /\ CanNotify(c)
    /\ LET heard == "Debugger.resumed" \in client[c].listeners
       IN /\ notifs' = [notifs EXCEPT ![c] =
                Delivered(@, [ev |-> "resumed", payload |-> Undefined,
                              heard |-> heard])]
          /\ session' = IF heard
                           THEN [session EXCEPT ![c] = ResumedHandler(@)]
                           ELSE session
    /\ UNCHANGED <<now, pc, child, stderr, timer, promise, wsUrl, client,
                   sessions, result, input, maps>>

(* ------------------------------------------------------ specification -- *)

Next ==
    \/ \E c \in Calls : StartThrows(c, DefaultInput)
    \/ \E c \in Calls : \E out \in Outputs(c) : Start(c, out, DefaultInput)
    \/ \E c \in Calls : StderrData(c, Len(child[c].output) - child[c].sent)
    \/ \E c \in Calls : ChildError(c)
    \/ \E c \in Calls, code \in ExitCodes : ChildExit(c, code)
    \/ \E c \in Calls : TimerFire(c)
    \/ Tick
    \/ \E c \in Calls : ConnectOk(c)
    \/ \E c \in Calls : ConnectFail(c)
    \/ \E c \in Calls : DebuggerEnableOk(c)
    \/ \E c \in Calls : DebuggerEnableFail(c)
    \/ \E c \in Calls, r \in Rands : RuntimeEnableOk(c, r)
    \/ \E c \in Calls : RuntimeEnableFail(c)
    \/ \E c \in Calls, p \in Payloads : Paused(c, p)
    \/ \E c \in Calls : Resumed(c)

Spec == Init /\ [][Next]_vars

(* The calls and their children alone, the connections delivering no    *)
(* notification: what the registry and the results depend on.            *)
NextStarts ==
    \/ \E c \in Calls : StartThrows(c, DefaultInput)
    \/ \E c \in Calls : \E out \in Outputs(c) : Start(c, out, DefaultInput)
    \/ \E c \in Calls : StderrData(c, Len(child[c].output) - child[c].sent)
    \/ \E c \in Calls : ChildError(c)
    \/ \E c \in Calls, code \in ExitCodes : ChildExit(c, code)
    \/ \E c \in Calls : TimerFire(c)
    \/ Tick
    \/ \E c \in Calls : ConnectOk(c)
    \/ \E c \in Calls : ConnectFail(c)
    \/ \E c \in Calls : DebuggerEnableOk(c)
    \/ \E c \in Calls : DebuggerEnableFail(c)
    \/ \E c \in Calls, r \in Rands : RuntimeEnableOk(c, r)
    \/ \E c \in Calls : RuntimeEnableFail(c)

SpecStarts == Init /\ [][NextStarts]_vars

(* One call, its child writing stderr in pieces of any size *)
NextSplit ==
    \/ \E in \in Inputs : StartThrows(1, in)
    \/ \E out \in Outputs(1), in \in Inputs : Start(1, out, in)
    \/ \E n \in 1..Len(Banner(1)) : StderrData(1, n)
    \/ ChildError(1)
    \/ \E code \in ExitCodes : ChildExit(1, code)
    \/ TimerFire(1)
    \/ Tick
    \/ ConnectOk(1)
    \/ ConnectFail(1)
    \/ DebuggerEnableOk(1)
    \/ DebuggerEnableFail(1)
    \/ \E r \in Rands : RuntimeEnableOk(1, r)
    \/ RuntimeEnableFail(1)
    \/ \E p \in Payloads : Paused(1, p)
    \/ Resumed(1)

SpecSplit == Init /\ [][NextSplit]_vars

(* -------------------------------------------------------------- claims -- *)

Settled(c) == promise[c].state \in {"resolved", "rejected"}

Returned(c) == pc[c] \in {"done", "failed"}

LastNotif(c) == notifs[c][Len(notifs[c])]

(* C1: the ids of all successfully started sessions are pairwise         *)
(* distinct, so the registry has one entry per successful start.         *)
C1_IdsPairwiseDistinct ==
    /\ \A c1, c2 \in DOMAIN session :
          c1 # c2 => session[c1].id # session[c2].id
    /\ Cardinality(DOMAIN sessions) = Cardinality({c \in Calls : pc[c] = "done"})

(* C2: a start that failed, at whatever stage and however interleaved    *)
(* with other starts, has added no Session: no Session object of a       *)
(* failed call exists, and every registry entry is the Session of a call *)
(* that returned success.                                                *)
C2_FailedStartRegistersNothing ==
    /\ \A c \in Calls : pc[c] = "failed" => c \notin DOMAIN session
    /\ \A id \in DOMAIN sessions : pc[sessions[id]] = "done"

(* a start failed at Runtime.enable, its connection open, while another  *)
(* start has registered its session                                      *)
C2_Witness ==
    \E c1, c2 \in Calls :
        /\ pc[c1] = "failed"
        /\ result[c1] = ErrorResult(RuntimeEnableError)
        /\ pc[c2] = "done"
        /\ \E id \in DOMAIN sessions : sessions[id] = c2

(* C3: an exit (with a code or by a signal) or an error of the child     *)
(* while discovery is pending makes discovery fail at once, with an      *)
(* error that is not the timeout.                                        *)
C3_ExitFailsDiscoveryAtOnce ==
    [][\A c \in Calls :
          (/\ child[c].status = "running"
           /\ child'[c].status \in {"exited", "errored"}
           /\ promise[c].state = "pending")
          => (promise'[c].state = "rejected" /\ promise'[c].value # TimeoutError)]_vars

(* C4: discovery resolves with the complete URI the child emitted, at    *)
(* whatever positions the stderr output was split into chunks.           *)
C4_ResolvesWithCompleteUri ==
    \A c \in Calls : promise[c].state = "resolved" => promise[c].value = Endpoint(c)

(* C5: discovery fails with the timeout error exactly when the timer     *)
(* fires, and the timer fires no earlier than 10 s after it was armed.   *)
C5_TimeoutOnlyAtDeadline ==
    \A c \in Calls :
        /\ (promise[c].state = "rejected" /\ promise[c].value = TimeoutError)
              <=> timer[c].state = "fired"
        /\ result[c] = ErrorResult(TimeoutError) <=> timer[c].state = "fired"
        /\ timer[c].state = "fired" => now >= timer[c].deadline

(* the child wrote all of an output without endpoint, still runs, and    *)
(* the start failed with the timeout                                     *)
C5_Witness ==
    \E c \in Calls :
        /\ child[c].status = "running"
        /\ child[c].output = NoUri
        /\ stderr[c] = NoUri
        /\ timer[c].state = "fired"
        /\ result[c] = ErrorResult(TimeoutError)

(* C6: once discovery has settled no discovery handler body runs: the    *)
(* timer is not armed and the data listener no longer appends to the     *)
(* stderr accumulator.                                                   *)
C6_NoHandlerAfterSettlement ==
    [][\A c \in Calls :
          Settled(c) => (timer[c].state # "armed" /\ stderr'[c] = stderr[c])]_vars

(* C7: the lastPaused of a session is determined by the last              *)
(* notification delivered to its handlers: the payload after a pause,    *)
(* undefined after a resume.                                             *)
C7_LastNotificationDecides ==
    \A c \in DOMAIN session :
        (notifs[c] # <<>> /\ LastNotif(c).heard)
        => session[c].lastPaused =
             (IF LastNotif(c).ev = "paused" THEN LastNotif(c).payload ELSE Undefined)

(* two consecutive pauses with different payloads reached the handlers   *)
C7_Witness ==
    \E c \in DOMAIN session :
        /\ Len(notifs[c]) = 2
        /\ notifs[c][1] = [ev |-> "paused", payload |-> "p1", heard |-> TRUE]
        /\ notifs[c][2] = [ev |-> "paused", payload |-> "p2", heard |-> TRUE]
        /\ session[c].lastPaused = "p2"

(* C8: for every registered session lastPaused is set iff the last       *)
(* pause/resume notification its connection delivered since              *)
(* Debugger.enable was issued is a pause.                                *)
C8_PausedIffLastNotificationIsPause ==
    \A id \in DOMAIN sessions :
        LET c == sessions[id]
        IN session[c].lastPaused # Undefined
             <=> (notifs[c] # <<>> /\ LastNotif(c).ev = "paused")

(* C9: no start has returned an error while a connection it opened is    *)
(* still open.                                                           *)
C9_FailedStartClosesConnection ==
    \A c \in Calls : pc[c] = "failed" => client[c].state # "open"

(* C10: registering never overwrites: existing registry entries stay as  *)
(* they are, and a start returns success only having added a new key.    *)
C10_RegisterNeverOverwrites ==
    [][/\ \A id \in DOMAIN sessions :
             id \in DOMAIN sessions' /\ sessions'[id] = sessions[id]
       /\ \A c \in Calls :
             (pc[c] # "done" /\ pc'[c] = "done")
             => Cardinality(DOMAIN sessions') = Cardinality(DOMAIN sessions) + 1]_vars

(* C11: a call returns once, either the success payload (the id the      *)
(* session was registered under, the discovered address, the child's     *)
(* pid, the runner and entry it was given) or an error-flagged result    *)
(* with a message; it returns success iff it registered a session.       *)
C11_OneResultPerCall ==
    [][\A c \in Calls :
          /\ Returned(c) => (result'[c] = result[c] /\ pc'[c] = pc[c])
          /\ ~Returned(c)' => result'[c] = NoResult
          /\ (~Returned(c) /\ pc'[c] = "done") =>
                /\ c \in DOMAIN session' /\ c \notin DOMAIN session
                /\ ~result'[c].isError
                /\ result'[c].payload.sessionId \in DOMAIN sessions'
                /\ sessions'[result'[c].payload.sessionId] = c
                /\ session'[c].id = result'[c].payload.sessionId
                /\ promise[c].state = "resolved"
                /\ result'[c].payload.wsUrl = promise[c].value
                /\ result'[c].payload.pid = session'[c].process
                /\ result'[c].payload.runner = input[c].runner
                /\ result'[c].payload.entry = input[c].entry
          /\ (~Returned(c) /\ pc'[c] = "failed") =>
                /\ result'[c].isError
                /\ Len(result'[c].text) >= 2
                /\ result'[c].payload = NoPayload
                /\ session' = session /\ sessions' = sessions]_vars

(* a call given runner tsx and entry b.js returned its success payload   *)
C11_Witness ==
    \E c \in Calls :
        /\ pc[c] = "done"
        /\ input[c].runner = "tsx" /\ input[c].entry = "b.js"
        /\ result[c].payload.runner = "tsx" /\ result[c].payload.entry = "b.js"
        /\ result[c].payload.wsUrl = Uri(c)
        /\ sessions[result[c].payload.sessionId] = c

IsInfix(buf, text) ==
    \E i \in 0..(Len(text) - Len(buf)) : SubSeq(text, i + 1, i + Len(buf)) = buf

(* C12: when discovery fails by the timeout, the error message returned  *)
(* carries the stderr output accumulated up to the deadline.             *)
C12_TimeoutCarriesStderr ==
    [][\A c \in Calls :
          (timer[c].state = "armed" /\ timer'[c].state = "fired")
          => (result'[c].isError /\ IsInfix(stderr[c], result'[c].text))]_vars

(* C13: with calls interleaved, each Session built holds the client and  *)
(* the process of its own call and the address that call's child         *)
(* announced, no two Sessions share a breakpoints Map, and the           *)
(* lastPaused of a Session depends on the notifications of its own       *)
(* connection alone, whatever the other connections delivered.           *)
C13_SessionsIndependent ==
    /\ \A c \in DOMAIN session :
          /\ session[c].process = c
          /\ session[c].client = c
          /\ session[c].wsUrl = Endpoint(c)
          /\ session[c].breakpoints \in DOMAIN maps
          /\ session[c].lastPaused =
                (IF notifs[c] # <<>> /\ LastNotif(c).heard
                   THEN LastNotif(c).payload ELSE Undefined)
    /\ \A c1, c2 \in DOMAIN session :
          c1 # c2 => session[c1].breakpoints # session[c2].breakpoints

(* two calls registered sessions with different addresses, and a pause   *)
(* delivered to one left the other without a snapshot                    *)
C13_Witness ==
    \E c1, c2 \in DOMAIN session :
        /\ c1 # c2
        /\ pc[c1] = "done" /\ pc[c2] = "done"
        /\ session[c1].wsUrl # session[c2].wsUrl
        /\ session[c1].lastPaused = "p1"
        /\ notifs[c2] = <<>>
        /\ session[c2].lastPaused = Undefined

(* C14: the stages of a call follow one another, each begun only after   *)
(* the previous one succeeded: spawn, discovery resolved, connection     *)
(* open, Debugger.enable completed, Runtime.enable completed, session    *)
(* registered; every registered session has both domains enabled on its *)
(* connection, Debugger before Runtime.                                  *)
C14_StagesInOrder ==
    /\ \A c \in Calls :
          /\ pc[c] = "discover" =>
                child[c].status # "none" /\ promise[c].state = "pending"
                /\ client[c] = NoClient
          /\ pc[c] = "connect" =>
                child[c].status # "none" /\ promise[c].state = "resolved"
                /\ client[c] = NoClient
          /\ pc[c] = "enableDbg" =>
                promise[c].state = "resolved" /\ client[c].state = "open"
                /\ client[c].enabled = <<>>
          /\ pc[c] = "enableRt" =>
                client[c].state = "open" /\ client[c].enabled = <<"Debugger">>
          /\ pc[c] = "done" =>
                client[c].state = "open"
                /\ client[c].enabled = <<"Debugger", "Runtime">>
          /\ c \in DOMAIN session <=> pc[c] = "done"
    /\ \A id \in DOMAIN sessions :
          /\ promise[sessions[id]].state = "resolved"
          /\ client[sessions[id]].state = "open"
          /\ client[sessions[id]].enabled = <<"Debugger", "Runtime">>

(* a session is registered on a connection with both domains enabled    *)
C14_Witness ==
    \E id \in DOMAIN sessions :
        /\ pc[sessions[id]] = "done"
        /\ client[sessions[id]].enabled = <<"Debugger", "Runtime">>
        /\ session[sessions[id]].wsUrl = Uri(sessions[id])

(* C15: once discovery has settled no later chunk, exit, error or timer  *)
(* expiry changes its outcome, and the address it resolves with is the   *)
(* match in the first buffer that matches.                               *)
C15_SettledOutcomeIsFinal ==
    [][\A c \in Calls :
          /\ Settled(c) => (promise'[c] = promise[c] /\ wsUrl'[c] = wsUrl[c])
          /\ (promise[c].state = "pending" /\ promise'[c].state = "resolved")
                => /\ Match(stderr[c]) = <<>>
                   /\ promise'[c].value = Match(stderr'[c])
                   /\ wsUrl'[c] = promise'[c].value]_vars

(* discovery resolved with the match of an earlier buffer and a later    *)
(* chunk, whose buffer matches a longer address, did not replace it      *)
C15_Witness ==
    \E c \in Calls :
        /\ promise[c].state = "resolved"
        /\ Match(stderr[c]) = Uri(c)
        /\ promise[c].value # Uri(c)
        /\ wsUrl[c] = promise[c].value

(* C16: the exit of a registered session's process changes nothing in    *)
(* the registry or in the Session (same id, client, wsUrl, lastPaused),  *)
(* and no step removes a registered id.                                  *)
C16_RegistryNeverShrinks ==
    [][/\ DOMAIN sessions \subseteq DOMAIN sessions'
       /\ \A c \in DOMAIN session :
             (child[c].status = "running" /\ child'[c].status # "running")
             => (sessions' = sessions /\ session' = session /\ client' = client)]_vars

(* a session holding a pause snapshot is still registered after its      *)
(* process exited                                                        *)
C16_Witness ==
    \E id \in DOMAIN sessions :
        /\ child[sessions[id]].status = "exited"
        /\ session[sessions[id]].id = id
        /\ session[sessions[id]].lastPaused = "p1"
        /\ client[sessions[id]].state = "open"

C18_FreshAndUntouched ==
    [][/\ \A c \in (DOMAIN session') \ (DOMAIN session) :
             /\ session'[c].lastPaused = Undefined
             /\ session'[c].breakpoints \in DOMAIN maps'
       /\ \A m \in DOMAIN maps' : maps'[m] = {}
       /\ \A c \in DOMAIN session :
             /\ c \in DOMAIN session'
             /\ [session'[c] EXCEPT !.lastPaused = Undefined]
                  = [session[c] EXCEPT !.lastPaused = Undefined]
             /\ session'[c].lastPaused # session[c].lastPaused
                  => notifs'[c] # notifs[c]]_vars

(* a session just registered: no notification yet, no snapshot, an       *)
(* empty breakpoints Map                                                 *)
C18_Witness ==
    \E id \in DOMAIN sessions :
        LET c == sessions[id]
        IN /\ notifs[c] = <<>>
           /\ session[c].lastPaused = Undefined
           /\ maps[session[c].breakpoints] = {}

(* C19: the command is node for the runners node and ts-node and tsx     *)
(* for tsx; the arguments are the flag (--inspect-brk when inspectBrk,   *)
(* else --inspect), for ts-node then -r ts-node/register, then entry and *)
(* args unchanged and in order.                                          *)
C19_LaunchCommand ==
    \A c \in Calls :
        child[c].status # "none" =>
            LET in == input[c]
                flag == IF in.inspectBrk THEN "--inspect-brk" ELSE "--inspect"
            IN /\ in.runner = "node" =>
                     /\ child[c].spawnfile = "node"
                     /\ child[c].spawnargs = <<flag, in.entry>> \o in.args
               /\ in.runner = "tsx" =>
                     /\ child[c].spawnfile = "tsx"
                     /\ child[c].spawnargs = <<flag, in.entry>> \o in.args
               /\ in.runner = "ts-node" =>
                     /\ child[c].spawnfile = "node"
                     /\ child[c].spawnargs =
                          <<flag, "-r", "ts-node/register", in.entry>> \o in.args
               /\ in.runner \in Runners

(* ts-node without inspectBrk and with two arguments was launched as     *)
(* node --inspect -r ts-node/register b.js x y                           *)
C19_Witness ==
    \E c \in Calls :
        /\ input[c] = [runner |-> "ts-node", inspectBrk |-> FALSE,
                       entry |-> "b.js", args |-> <<"x", "y">>]
        /\ child[c].spawnfile = "node"
        /\ child[c].spawnargs =
             <<"--inspect", "-r", "ts-node/register", "b.js", "x", "y">>

====
